---- MODULE Spec2Model ----
(***************************************************************************)
(* Model of libguac-client-streamtest (src/src/client.c, client.h): a      *)
(* guacd client plugin that streams a file as blobs at a fixed frame rate, *)
(* with a pause toggle and a progress bar.                                 *)
(*                                                                         *)
(* One action per host-invoked entry point: guac_client_init, the message  *)
(* handler (one "tick"), the key handler and the free handler.  Everything *)
(* the operating system or the host decides (arguments, partial reads,     *)
(* read errors, the clock, how long the work of a frame takes) is drawn    *)
(* with \E from small sets.                                                *)
(*                                                                         *)
(* Bytes are identified by their offset in the source.  Byte strings are   *)
(* kept run-length encoded: a sequence of runs <<first, len>>, the bytes   *)
(* of the source at offsets first .. first+len-1; first = -1 marks bytes   *)
(* of a malloc'ed block that were never written.                           *)
(***************************************************************************)
EXTENDS Integers, Sequences, FiniteSets, TLC

(***************************************************************************)
(* Bounds of the model.                                                    *)
(***************************************************************************)
\* longest sequence of underlying read() outcomes the environment dictates
\* to one streamtest_fill_buffer call; later reads are full reads
MaxReads == 2
\* a read error is injected at most this many times in one session
MaxErrors == 1
\* only sessions whose source fits in this many frames are explored
MaxFrames == 3
\* largest length handed to streamtest_write_blobs in SpecBlobs
MaxBlobLen == 12200
\* SpecFill: largest source, largest buffer and largest partial read count
MaxFillLen == 4
\* SpecFill: longest sequence of read outcomes the environment dictates
MaxFillReads == 3

(***************************************************************************)
(* Program constants.                                                      *)
(***************************************************************************)
STREAMTEST_PROGRESS_WIDTH == 640
STREAMTEST_PROGRESS_HEIGHT == 32
STREAMTEST_ARGS_COUNT == 4
\* largest blob streamtest_write_blobs sends
BLOB_MAX == 6048
\* the keysym that toggles pause (space)
KEYSYM_SPACE == 32
\* INT_MAX of the 32-bit int all counters and timestamps are held in
INT_MAX == 2147483647

Min(a, b) == IF a < b THEN a ELSE b

(***************************************************************************)
(* 32-bit int arithmetic, on 16-bit limbs so that no intermediate value    *)
(* leaves the range of the model checker's integers.                       *)
(***************************************************************************)
Lo16(x) == x % 65536
Hi16(x) == (x \div 65536) % 65536

\* the int whose two's complement representation is hi * 2^16 + lo
ToInt(hi, lo) ==
    IF hi >= 32768 THEN (hi - 65536) * 65536 + lo ELSE hi * 65536 + lo

\* a - b in int arithmetic, wrapping modulo 2^32
IntSub(a, b) ==
    LET d0     == Lo16(a) - Lo16(b)
        borrow == IF d0 < 0 THEN 1 ELSE 0
    IN  ToInt((Hi16(a) - Hi16(b) - borrow) % 65536, d0 + borrow * 65536)

(***************************************************************************)
(* Run-length encoded byte strings.                                        *)
(***************************************************************************)
RECURSIVE RunsLen(_)
RunsLen(rs) == IF rs = <<>> THEN 0 ELSE Head(rs)[2] + RunsLen(Tail(rs))

\* rs followed by the run r, merged with the last run when contiguous
AppendRun(rs, r) ==
    IF r[2] = 0 THEN rs
    ELSE IF rs = <<>> THEN <<r>>
    ELSE LET l == rs[Len(rs)]
         IN  IF (l[1] >= 0 /\ r[1] = l[1] + l[2]) \/ (l[1] = -1 /\ r[1] = -1)
             THEN SubSeq(rs, 1, Len(rs) - 1) \o <<(<<l[1], l[2] + r[2]>>)>>
             ELSE Append(rs, r)

RECURSIVE Concat(_, _)
Concat(a, b) == IF b = <<>> THEN a ELSE Concat(AppendRun(a, Head(b)), Tail(b))

\* the run r without its first n bytes
RunDrop(r, n) == <<(IF r[1] = -1 THEN -1 ELSE r[1] + n), r[2] - n>>

\* the first n bytes of rs
RECURSIVE Take(_, _)
Take(rs, n) ==
    IF n <= 0 \/ rs = <<>> THEN <<>>
    ELSE IF Head(rs)[2] <= n
         THEN <<Head(rs)>> \o Take(Tail(rs), n - Head(rs)[2])
         ELSE <<(<<Head(rs)[1], n>>)>>

\* rs without its first n bytes
RECURSIVE Drop(_, _)
Drop(rs, n) ==
    IF n <= 0 \/ rs = <<>> THEN rs
    ELSE IF Head(rs)[2] <= n THEN Drop(Tail(rs), n - Head(rs)[2])
         ELSE <<RunDrop(Head(rs), n)>> \o Tail(rs)

\* the bytes buf[off .. off+n-1]
Slice(buf, off, n) == Take(Drop(buf, off), n)

\* buf with the bytes data stored at buf + off
WriteAt(buf, off, data) ==
    Concat(Concat(Take(buf, off), data), Drop(buf, off + RunsLen(data)))

\* a freshly malloc'ed block of n bytes (nothing for n <= 0)
Malloc(n) == IF n > 0 THEN <<(<<-1, n>>)>> ELSE <<>>

\* the first n bytes of the source
Prefix(n) == IF n > 0 THEN <<(<<0, n>>)>> ELSE <<>>

(***************************************************************************)
(* State.                                                                  *)
(***************************************************************************)
VARIABLES
    phase,     \* "new", "running" (init succeeded), "failed" (init returned
               \* non-zero), "crashed" (process killed), "freed"
    source,    \* the file named by the filename argument
    state,     \* the streamtest_state of the client (client->data)
    pos,       \* the file offset of state->fd
    fd,        \* the descriptor: "none", "open", "closed"
    stream,    \* the guac_stream: "none", "allocated", "freed"
    heap,      \* the malloc'ed blocks that have not been freed
    handlers,  \* TRUE when the three handlers are registered on the client
    ops,       \* what the last entry point call did, in order: instructions
               \* sent on the socket, log messages, guac_client_stop, usleep
    sent,      \* all the bytes sent as blobs so far, in emission order
    call,      \* the last entry point call and its inputs
    ret,       \* <<r>> if that call returned r, <<>> if it did not return
    fill,      \* the outcome of the streamtest_fill_buffer call made by
               \* the last entry point call (NoFill if it made none)
    frame,     \* the timestamps taken by the last entry point call
    nframes,   \* number of streamtest_fill_buffer calls so far (saturating)
    errors,    \* number of read errors so far
    status,    \* the session as the host sees it: "Running", "EndOfStream"
               \* once guac_client_stop was called, "ReadError" once the
               \* message handler returned non-zero
    div0       \* what an integer division by zero does in this build, once
               \* the process has made one: "trap" or "zero"; "unknown"
               \* before

vars == <<phase, source, state, pos, fd, stream, heap, handlers, ops,
          sent, call, ret, fill, frame, nframes, errors, status, div0>>

(***************************************************************************)
(* streamtest_utime: the value of the clock, as an int of microseconds.    *)
(* ts is what clock_gettime stores: [tv_sec, tv_nsec].  The conversion of  *)
(* the 64-bit product to int keeps its low 32 bits.                        *)
(***************************************************************************)
streamtest_utime(ts) ==
    LET sh == ts.tv_sec \div 65536
        sl == ts.tv_sec % 65536
        \* 1000000 = 15 * 65536 + 16960
        a  == (sh * 16960 + sl * 15) % 65536
        b  == (sl * 16960) + (ts.tv_nsec \div 1000)
    IN  ToInt((a + (b \div 65536)) % 65536, b % 65536)

\* the clock usecs microseconds after ts (0 <= usecs <= INT_MAX)
ClockAfter(ts, usecs) ==
    LET us == (ts.tv_nsec \div 1000) + (usecs % 1000000)
    IN  [tv_sec  |-> ts.tv_sec + (usecs \div 1000000) + (us \div 1000000),
         tv_nsec |-> ((us % 1000000) * 1000) + (ts.tv_nsec % 1000)]

\* the clock ts after the administrator (or NTP) has set it back by secs
\* seconds: CLOCK_REALTIME is the settable wall clock
ClockSetBack(ts, secs) == [ts EXCEPT !.tv_sec = @ - secs]

(***************************************************************************)
(* read(fd, buffer, count) at file offset p of a source of len bytes.      *)
(* outcome is what the operating system decides: -1 for an error, n >= 1   *)
(* to deliver at most n bytes.  At end of file read returns 0.             *)
(***************************************************************************)
Read(len, p, count, outcome) ==
    IF outcome = -1 THEN -1
    ELSE IF p >= len THEN 0
    ELSE Min(outcome, Min(count, len - p))

(***************************************************************************)
(* streamtest_fill_buffer(fd, buffer, length).  plan holds the outcomes of *)
(* the first underlying reads; once it is used up reads are full.          *)
(* Yields the return value, the file offset and the buffer afterwards.     *)
(***************************************************************************)
\* Mutant for C1: the buffer pointer is not advanced after a partial read.
RECURSIVE FillLoopNoAdvance(_, _, _, _, _, _, _)
FillLoopNoAdvance(len, p, buffer, off, length, bytes_read, plan) ==
    IF length > 0
    THEN LET outcome == IF plan = <<>> THEN length ELSE Head(plan)
             result  == Read(len, p, length, outcome)
             rest    == IF plan = <<>> THEN plan ELSE Tail(plan)
         IN  IF result = 0
             THEN [result |-> bytes_read, pos |-> p, buffer |-> buffer,
                   failed |-> FALSE]
             ELSE IF result = -1
             THEN [result |-> -1, pos |-> p, buffer |-> buffer,
                   failed |-> TRUE]
             ELSE FillLoopNoAdvance(len, p + result,
                           WriteAt(buffer, off, <<(<<p, result>>)>>),
                           off, length - result,
                           bytes_read + result, rest)
    ELSE [result |-> bytes_read, pos |-> p, buffer |-> buffer,
          failed |-> FALSE]

\* Mutant for C3: a single read, no loop: a partial read is returned as is.
FillLoopOnce(len, p, buffer, off, length, bytes_read, plan) ==
    IF length > 0
    THEN LET outcome == IF plan = <<>> THEN length ELSE Head(plan)
             result  == Read(len, p, length, outcome)
         IN  IF result = 0
             THEN [result |-> bytes_read, pos |-> p, buffer |-> buffer,
                   failed |-> FALSE]
             ELSE IF result = -1
             THEN [result |-> -1, pos |-> p, buffer |-> buffer,
                   failed |-> TRUE]
             ELSE [result |-> bytes_read + result, pos |-> p + result,
                   buffer |-> WriteAt(buffer, off, <<(<<p, result>>)>>),
                   failed |-> FALSE]
    ELSE [result |-> bytes_read, pos |-> p, buffer |-> buffer,
          failed |-> FALSE]

RECURSIVE FillLoop(_, _, _, _, _, _, _)
FillLoop(len, p, buffer, off, length, bytes_read, plan) ==
    IF length > 0
    THEN LET outcome == IF plan = <<>> THEN length ELSE Head(plan)
             result  == Read(len, p, length, outcome)
             rest    == IF plan = <<>> THEN plan ELSE Tail(plan)
         IN  IF result = 0
             THEN [result |-> bytes_read, pos |-> p, buffer |-> buffer,
                   failed |-> FALSE]
             ELSE IF result = -1
             THEN [result |-> -1, pos |-> p, buffer |-> buffer,
                   failed |-> TRUE]
             ELSE FillLoop(len, p + result,
                           WriteAt(buffer, off, <<(<<p, result>>)>>),
                           off + result, length - result,
                           bytes_read + result, rest)
    ELSE [result |-> bytes_read, pos |-> p, buffer |-> buffer,
          failed |-> FALSE]

streamtest_fill_buffer(len, p, buffer, length, plan) ==
    FillLoop(len, p, buffer, 0, length, 0, plan)

(***************************************************************************)
(* streamtest_write_blobs(socket, stream, buffer, length): the blob        *)
(* instructions sent, each <<"blob", offset in buffer, size, bytes>>.      *)
(***************************************************************************)
\* Mutant for C2: the buffer pointer is not advanced to the next blob.
RECURSIVE BlobLoopNoAdvance(_, _, _)
BlobLoopNoAdvance(buffer, off, length) ==
    IF length > 0
    THEN LET chunk_size == IF length > BLOB_MAX THEN BLOB_MAX ELSE length
         IN  <<(<<"blob", off, chunk_size, Slice(buffer, off, chunk_size)>>)>>
             \o BlobLoopNoAdvance(buffer, off, length - chunk_size)
    ELSE <<>>

\* Mutant for C18: one blob per call: what exceeds the largest blob is
\* not sent.
BlobLoopFirstChunkOnly(buffer, off, length) ==
    IF length > 0
    THEN LET chunk_size == IF length > BLOB_MAX THEN BLOB_MAX ELSE length
         IN  <<(<<"blob", off, chunk_size, Slice(buffer, off, chunk_size)>>)>>
    ELSE <<>>

RECURSIVE BlobLoop(_, _, _)
BlobLoop(buffer, off, length) ==
    IF length > 0
    THEN LET chunk_size == IF length > BLOB_MAX THEN BLOB_MAX ELSE length
         IN  <<(<<"blob", off, chunk_size, Slice(buffer, off, chunk_size)>>)>>
             \o BlobLoop(buffer, off + chunk_size, length - chunk_size)
    ELSE <<>>

streamtest_write_blobs(buffer, length) == BlobLoop(buffer, 0, length)

\* the bytes of a sequence of instructions that are blobs
RECURSIVE BlobBytes(_)
BlobBytes(os) ==
    IF os = <<>> THEN <<>>
    ELSE IF Head(os)[1] = "blob"
         THEN Concat(Head(os)[4], BlobBytes(Tail(os)))
         ELSE BlobBytes(Tail(os))

(***************************************************************************)
(* lseek(fd, offset, whence): the new file offset, -1 if the source is not *)
(* seekable (a pipe).                                                      *)
(***************************************************************************)
\* Mutant for C4: the position is queried with SEEK_SET, which rewinds.
LseekRewinds(src, p, offset, whence) ==
    IF ~src.seekable THEN -1 ELSE offset

\* Mutant for C12: the position is queried with SEEK_END, which moves the
\* file offset to the end of the file.
LseekToEnd(src, p, offset, whence) ==
    IF ~src.seekable THEN -1 ELSE src.len + offset

Lseek(src, p, offset, whence) ==
    IF ~src.seekable THEN -1
    ELSE IF whence = "SEEK_CUR" THEN p + offset
    ELSE IF whence = "SEEK_END" THEN src.len + offset
    ELSE offset

(***************************************************************************)
(* streamtest_render_progress(client).  Yields the instructions sent, the  *)
(* file offset afterwards and whether the process was killed by the        *)
(* division.  All operands are non-negative, so \div is C's division.      *)
(* A division by zero is undefined: d0 is what it does, "trap" (SIGFPE     *)
(* kills the process) or "zero" (the quotient is 0).  The division is one  *)
(* instruction of the build, so every division by zero of a process does   *)
(* the same.                                                               *)
(***************************************************************************)
ProgressDivisor(st) == (st.file_size + 1) \div STREAMTEST_PROGRESS_WIDTH

\* what a division by divisor may do, known being what a division by zero
\* did before in this process
DivisionOutcomes(known, divisor) ==
    IF divisor # 0 THEN {"exact"}
    ELSE IF known = "unknown" THEN {"trap", "zero"}
    ELSE {known}

ProgressColor(paused) ==
    IF paused THEN <<"cfill", 128, 128, 0, 255>>
    ELSE <<"cfill", 0, 128, 0, 255>>

streamtest_render_progress(st, src, p, d0) ==
    LET position == Lseek(src, p, 0, "SEEK_CUR")
        bg       == << <<"rect", 0, 0, STREAMTEST_PROGRESS_WIDTH,
                         STREAMTEST_PROGRESS_HEIGHT>>,
                       <<"cfill", 64, 64, 64, 255>> >>
        divisor  == ProgressDivisor(st)
        width    == IF divisor = 0 THEN 0 ELSE (position + 1) \div divisor
    IN  IF position = -1
        THEN [ops |-> << <<"log", "WARNING">> >>, pos |-> p,
              crashed |-> FALSE]
        ELSE IF divisor = 0 /\ d0 = "trap"
        THEN [ops |-> bg, pos |-> position, crashed |-> TRUE]
        ELSE [ops |-> bg \o << <<"rect", 0, 0, width,
                                 STREAMTEST_PROGRESS_HEIGHT>>,
                               ProgressColor(st.paused) >>,
              pos |-> position, crashed |-> FALSE]

\* what is known of the build's division by zero after this render
DivisionSeen(known, st, src, p, d0) ==
    IF Lseek(src, p, 0, "SEEK_CUR") # -1 /\ ProgressDivisor(st) = 0
    THEN d0 ELSE known

(***************************************************************************)
(* Strings are sequences of one-character strings.                         *)
(***************************************************************************)
DigitValue(c) ==
    CASE c = "0" -> 0 [] c = "1" -> 1 [] c = "2" -> 2 [] c = "3" -> 3
      [] c = "4" -> 4 [] c = "5" -> 5 [] c = "6" -> 6 [] c = "7" -> 7
      [] c = "8" -> 8 [] c = "9" -> 9 [] OTHER -> -1

\* the value of the longest prefix of s made of decimal digits, after acc
RECURSIVE AtoiDigits(_, _)
AtoiDigits(s, acc) ==
    IF s = <<>> \/ DigitValue(Head(s)) = -1 THEN acc
    ELSE AtoiDigits(Tail(s), acc * 10 + DigitValue(Head(s)))

\* atoi(s): leading blanks, an optional sign, then digits; 0 if no digits
RECURSIVE Atoi(_)
Atoi(s) ==
    IF s = <<>> THEN 0
    ELSE IF Head(s) = " " THEN Atoi(Tail(s))
    ELSE IF Head(s) = "-" THEN 0 - AtoiDigits(Tail(s), 0)
    ELSE IF Head(s) = "+" THEN AtoiDigits(Tail(s), 0)
    ELSE AtoiDigits(s, 0)

\* strncmp(s, prefix, n) == 0, for a prefix of n characters
StrncmpEqual(s, prefix, n) ==
    Len(s) >= n /\ SubSeq(s, 1, n) = SubSeq(prefix, 1, n)

AudioPrefix == <<"a", "u", "d", "i", "o", "/">>

(***************************************************************************)
(* What the host and the operating system may supply.                      *)
(***************************************************************************)
ArgCounts == {3, 4, 5}
Mimetypes == { <<"a", "u", "d", "i", "o", "/", "o", "g", "g">>,
               <<"v", "i", "d", "e", "o", "/", "o", "g", "g">> }
BytesPerFrameArgs == { <<"0">>, <<"2">>, <<"1", "0", "2", "4">>,
                       <<"6", "0", "4", "9">> }
FrameUsecsArgs == { <<"1", "0", "0", "0", "0">> }
SourceLengths == {0, 3, 2500, 13000}

\* the files a filename may name: regular files, a pipe, a file that cannot
\* be opened and one whose fstat fails
Files ==
    [exists : {TRUE}, statable : {TRUE}, seekable : {TRUE},
     len : SourceLengths]
    \cup { [exists |-> TRUE, statable |-> TRUE, seekable |-> FALSE,
            len |-> 2500],
           [exists |-> FALSE, statable |-> FALSE, seekable |-> FALSE,
            len |-> 0],
           [exists |-> TRUE, statable |-> FALSE, seekable |-> TRUE,
            len |-> 3] }

\* key events <<keysym, pressed>>: space pressed and released, "a" pressed
KeyEvents == { <<KEYSYM_SPACE, 1>>, <<KEYSYM_SPACE, 0>>, <<97, 1>> }

\* outcomes of one underlying read: an error, or at most that many bytes
\* (SpecFill draws every count)
ReadOutcomes == {-1, 1}

RECURSIVE SeqsUpTo(_, _)
SeqsUpTo(S, n) ==
    IF n = 0 THEN {<<>>}
    ELSE LET shorter == SeqsUpTo(S, n - 1)
         IN  shorter \cup { Append(q, x) : q \in shorter, x \in S }

ReadPlans == SeqsUpTo(ReadOutcomes, MaxReads)

\* the timing of a frame: the clock when it starts (a date in 2015), how
\* long its reads take and how long its sends and flush take (microseconds;
\* a read from a pipe or a write to the socket may block for long), and by
\* how many seconds the wall clock is set back while the frame is made.
\* The microsecond count of the first start is 856 below 2^31 modulo 2^32.
FrameTimings ==
    { [ts |-> [tv_sec |-> 1446001671, tv_nsec |-> 929000999],
       read_usecs |-> 3000, send_usecs |-> 0, set_back |-> 0],
      [ts |-> [tv_sec |-> 1446000000, tv_nsec |-> 500],
       read_usecs |-> 3000, send_usecs |-> 9000, set_back |-> 0],
      [ts |-> [tv_sec |-> 1446000000, tv_nsec |-> 500],
       read_usecs |-> INT_MAX, send_usecs |-> INT_MAX, set_back |-> 0],
      [ts |-> [tv_sec |-> 1446000000, tv_nsec |-> 500],
       read_usecs |-> 3000, send_usecs |-> 0, set_back |-> 2] }

\* Mutant for C14: a file that cannot be opened yields a descriptor.
OpenAlwaysSucceeds(f) == 3

\* open(filename, O_RDONLY): a descriptor, -1 if the file cannot be opened
Open(f) == IF f.exists THEN 3 ELSE -1

\* st_size of the file
StSize(f) == IF f.seekable THEN f.len ELSE 0

\* streamtest_get_file_size(fd)
streamtest_get_file_size(f) == IF ~f.statable THEN -1 ELSE StSize(f)

NoState == [frame_duration |-> 0, frame_bytes |-> 0, frame_buffer |-> <<>>,
            file_size |-> 0, paused |-> FALSE]
NoSource == [exists |-> FALSE, statable |-> FALSE, seekable |-> FALSE,
             len |-> 0]
NoFill == [result |-> 0, start |-> 0, failed |-> FALSE]

Init ==
    /\ phase = "new"
    /\ source = NoSource
    /\ state = NoState
    /\ pos = 0
    /\ fd = "none"
    /\ stream = "none"
    /\ heap = {}
    /\ handlers = FALSE
    /\ ops = <<>>
    /\ sent = <<>>
    /\ call = [name |-> "none", args |-> <<>>]
    /\ ret = <<>>
    /\ fill = NoFill
    /\ frame = <<>>
    /\ nframes = 0
    /\ errors = 0
    /\ status = "Running"
    /\ div0 = "unknown"

(***************************************************************************)
(* guac_client_init(client, argc, argv)                                    *)
(***************************************************************************)
InitFails(o) ==
    /\ phase' = "failed"
    /\ ops' = o
    /\ ret' = <<1>>
    /\ UNCHANGED <<state, pos, heap, handlers, div0>>

guac_client_init(argc, mimetype, f, bytes_per_frame, frame_usecs, d0) ==
    /\ phase = "new"
    /\ call' = [name |-> "init",
                args |-> <<argc, mimetype, bytes_per_frame, frame_usecs>>]
    /\ source' = f
    /\ UNCHANGED <<sent, fill, frame, nframes, errors, status>>
    /\ IF argc # STREAMTEST_ARGS_COUNT
       THEN /\ InitFails(<< <<"log", "ERROR">> >>)
            /\ d0 = "exact"
            /\ UNCHANGED <<stream, fd>>
       ELSE IF ~StrncmpEqual(mimetype, AudioPrefix, 6)
       THEN /\ InitFails(<< <<"log", "ERROR">> >>)
            /\ d0 = "exact"
            /\ stream' = "allocated"
            /\ UNCHANGED fd
       ELSE IF Open(f) = -1
       THEN /\ InitFails(<< <<"audio", mimetype>>, <<"log", "DEBUG">>,
                            <<"log", "ERROR">> >>)
            /\ d0 = "exact"
            /\ stream' = "allocated"
            /\ UNCHANGED fd
       ELSE IF streamtest_get_file_size(f) = -1
       THEN /\ InitFails(<< <<"audio", mimetype>>, <<"log", "DEBUG">>,
                            <<"log", "ERROR">> >>)
            /\ d0 = "exact"
            /\ stream' = "allocated"
            /\ fd' = "open"
       ELSE LET st == [frame_duration |-> Atoi(frame_usecs),
                       frame_bytes    |-> Atoi(bytes_per_frame),
                       frame_buffer   |-> Malloc(Atoi(bytes_per_frame)),
                       file_size      |-> streamtest_get_file_size(f),
                       paused         |-> FALSE]
                r  == streamtest_render_progress(st, f, 0, d0)
                o  == << <<"audio", mimetype>>, <<"log", "DEBUG">>,
                         <<"log", "DEBUG">>, <<"log", "DEBUG">>,
                         <<"size", STREAMTEST_PROGRESS_WIDTH,
                           STREAMTEST_PROGRESS_HEIGHT>> >> \o r.ops
            IN  /\ d0 \in DivisionOutcomes(div0, ProgressDivisor(st))
                /\ div0' = DivisionSeen(div0, st, f, 0, d0)
                \* bound of the model: the source fits in MaxFrames frames
                /\ st.frame_bytes <= 0
                   \/ f.len <= st.frame_bytes * MaxFrames
                /\ stream' = "allocated"
                /\ fd' = "open"
                /\ state' = st
                /\ heap' = {"state"} \cup
                           (IF st.frame_bytes >= 0 THEN {"frame_buffer"}
                            ELSE {})
                /\ handlers' = TRUE
                /\ pos' = r.pos
                /\ IF r.crashed
                   THEN phase' = "crashed" /\ ops' = o /\ ret' = <<>>
                   ELSE /\ phase' = "running"
                        /\ ops' = o \o << <<"flush">> >>
                        /\ ret' = <<0>>

(***************************************************************************)
(* streamtest_client_key_handler(client, keysym, pressed)                  *)
(***************************************************************************)
\* Mutant for C9: the pressed flag is not tested.
TogglesPauseOnRelease(keysym, pressed) == keysym = KEYSYM_SPACE

\* toggle paused state when space is pressed
TogglesPause(keysym, pressed) == pressed # 0 /\ keysym = KEYSYM_SPACE

streamtest_client_key_handler(keysym, pressed) ==
    /\ phase = "running"
    /\ call' = [name |-> "key", args |-> <<keysym, pressed>>]
    /\ state' = IF TogglesPause(keysym, pressed)
                THEN [state EXCEPT !.paused = ~state.paused]
                ELSE state
    /\ ops' = <<>>
    /\ ret' = <<0>>
    /\ fill' = NoFill
    /\ frame' = <<>>
    /\ UNCHANGED <<phase, source, pos, fd, stream, heap, handlers,
                   sent, nframes, errors, status, div0>>

(***************************************************************************)
(* streamtest_client_free_handler(client)                                  *)
(***************************************************************************)
streamtest_client_free_handler ==
    /\ phase = "running"
    /\ call' = [name |-> "free", args |-> <<>>]
    /\ fd' = "closed"
    /\ stream' = "freed"
    /\ heap' = heap \ {"state"}
    /\ phase' = "freed"
    /\ ops' = <<>>
    /\ ret' = <<0>>
    /\ fill' = NoFill
    /\ frame' = <<>>
    /\ UNCHANGED <<source, state, pos, handlers, sent, nframes, errors,
                   status, div0>>

(***************************************************************************)
(* streamtest_client_message_handler(client): one tick.                    *)
(* plan: the outcomes of the underlying reads; t.ts: the clock at the      *)
(* start of the frame; t.read_usecs, t.send_usecs: the time the reads, and *)
(* the sends and the flush, take; t.set_back: the seconds the clock is set *)
(* back meanwhile; d0: what a division by zero does.                       *)
(***************************************************************************)
\* the end of the handler: sleep for the remainder of the frame
SleepOps(st, frame_start, now) ==
    LET frame_duration == IntSub(now, frame_start)
    IN  IF frame_duration < st.frame_duration
        THEN << <<"usleep", IntSub(st.frame_duration, frame_duration)>> >>
        ELSE << <<"log", "DEBUG">> >>

\* Mutant for C5: a read shorter than the frame is taken for end of file.
FrameOpsShortIsEof(st, length) ==
    IF length >= st.frame_bytes
    THEN streamtest_write_blobs(st.frame_buffer, length)
    ELSE << <<"log", "INFO">>, <<"stop">> >>

\* Mutant for C20: end of file is logged but the client is not stopped.
FrameOpsNeverStops(st, length) ==
    IF length > 0
    THEN streamtest_write_blobs(st.frame_buffer, length)
    ELSE << <<"log", "INFO">> >>

\* what the handler does with the length streamtest_fill_buffer returned:
\* write all data read as blobs, disconnect on EOF
FrameOps(st, length) ==
    IF length > 0
    THEN streamtest_write_blobs(st.frame_buffer, length)
    ELSE << <<"log", "INFO">>, <<"stop">> >>

\* Mutant for C19: the progress bar is updated before the data is sent.
FrameSequenceRenderFirst(blobs, render, sleep) ==
    render \o << <<"flush">> >> \o blobs \o sleep

\* what a completed handler call does, in order: the blobs (or the stop),
\* the update of the progress bar and the flush, the sleep
FrameSequence(blobs, render, sleep) ==
    blobs \o render \o << <<"flush">> >> \o sleep

\* a paused frame: streamtest_fill_buffer is not called
NoRead(p, buffer) ==
    [result |-> 0, pos |-> p, buffer |-> buffer, failed |-> FALSE]

\* TRUE if guac_client_stop is among the operations os
HasStop(os) == \E i \in 1..Len(os) : os[i][1] = "stop"

\* (f and blobs are bound with \E over a one-element set so that they are
\* computed once)
streamtest_client_message_handler(plan, t, d0) ==
    \E f \in { IF state.paused THEN NoRead(pos, state.frame_buffer)
                ELSE streamtest_fill_buffer(source.len, pos,
                         state.frame_buffer, state.frame_bytes, plan) } :
    \E blobs \in { IF state.paused THEN <<>>
                    ELSE FrameOps([state EXCEPT !.frame_buffer = f.buffer],
                                  f.result) } :
    LET frame_start == streamtest_utime(t.ts)
        length == f.result
        st     == IF state.paused THEN state
                  ELSE [state EXCEPT !.frame_buffer = f.buffer]
        r      == streamtest_render_progress(st, source,
                      IF state.paused THEN pos ELSE f.pos, d0)
        ts_mid == IF state.paused THEN t.ts
                  ELSE ClockAfter(t.ts, t.read_usecs)
        now    == streamtest_utime(
                      ClockSetBack(ClockAfter(ts_mid, t.send_usecs),
                                   t.set_back))
    IN  /\ phase = "running"
        /\ d0 \in DivisionOutcomes(div0, ProgressDivisor(state))
        \* bound of the model: at most MaxErrors read errors
        /\ ~state.paused /\ f.failed => errors < MaxErrors
        /\ call' = [name |-> "tick", args |-> <<>>]
        /\ state' = st
        /\ UNCHANGED <<source, fd, stream, heap, handlers>>
        /\ IF state.paused
           THEN fill' = NoFill /\ UNCHANGED <<nframes, errors>>
           ELSE /\ fill' = [result |-> length, start |-> pos,
                            failed |-> f.failed]
                /\ nframes' = Min(nframes + 1, MaxFrames + 2)
                /\ errors' = IF f.failed THEN errors + 1 ELSE errors
        /\ IF ~state.paused /\ length = -1
           THEN \* abort connection if we cannot read
                /\ ops' = << <<"log", "ERROR">> >>
                /\ ret' = <<1>>
                /\ pos' = f.pos
                /\ frame' = <<frame_start>>
                /\ status' = IF status = "Running" THEN "ReadError"
                             ELSE status
                /\ UNCHANGED <<phase, sent, div0>>
           ELSE /\ sent' = Concat(sent, BlobBytes(blobs))
                /\ div0' = DivisionSeen(div0, st, source,
                               IF state.paused THEN pos ELSE f.pos, d0)
                /\ pos' = r.pos
                /\ status' = IF HasStop(blobs) /\ status = "Running"
                             THEN "EndOfStream" ELSE status
                /\ IF r.crashed
                   THEN /\ phase' = "crashed"
                        /\ ops' = blobs \o r.ops
                        /\ ret' = <<>>
                        /\ frame' = <<frame_start>>
                   ELSE /\ ops' = FrameSequence(blobs, r.ops,
                                      SleepOps(st, frame_start, now))
                        /\ ret' = <<0>>
                        /\ frame' = <<frame_start, now>>
                        /\ UNCHANGED phase

Tick ==
    \E plan \in (IF state.paused THEN {<<>>} ELSE ReadPlans),
       t \in FrameTimings,
       d0 \in DivisionOutcomes(div0, ProgressDivisor(state)) :
        streamtest_client_message_handler(plan, t, d0)

Key ==
    \E k \in KeyEvents : streamtest_client_key_handler(k[1], k[2])

ClientInit ==
    \E argc \in ArgCounts, mimetype \in Mimetypes, f \in Files,
       bytes_per_frame \in BytesPerFrameArgs, frame_usecs \in FrameUsecsArgs,
       d0 \in {"exact", "trap", "zero"} :
        guac_client_init(argc, mimetype, f, bytes_per_frame, frame_usecs, d0)

Free == streamtest_client_free_handler

Next == ClientInit \/ Tick \/ Key \/ Free

Spec == Init /\ [][Next]_vars

(***************************************************************************)
(* The session as long as the host keeps it: no teardown, and no read of   *)
(* the source fails.  The host calls the message handler again and again   *)
(* (guacd's client loop), so a tick that reads is made again and again as  *)
(* long as playback is unpaused again and again (strong fairness), and a   *)
(* paused playback is resumed by a press of the space key (weak            *)
(* fairness).  The strong fairness condition is written with the guard of  *)
(* the handler, CanRead, in place of ENABLED: in SpecLive the steps that   *)
(* set call.name to "tick" are the steps of TickNoError, which is enabled  *)
(* whenever the session is running.                                        *)
(***************************************************************************)
ReadPlansNoError == SeqsUpTo(ReadOutcomes \ {-1}, MaxReads)

TickNoError ==
    \E plan \in (IF state.paused THEN {<<>>} ELSE ReadPlansNoError),
       t \in FrameTimings,
       d0 \in DivisionOutcomes(div0, ProgressDivisor(state)) :
        streamtest_client_message_handler(plan, t, d0)

\* the message handler can be called and will read
CanRead == phase = "running" /\ ~state.paused

\* SF_vars(CanRead /\ TickNoError)
FairTick ==
    \/ <>[]~CanRead
    \/ []<><<CanRead /\ call'.name = "tick">>_vars

Resume == state.paused /\ streamtest_client_key_handler(KEYSYM_SPACE, 1)

NextLive == ClientInit \/ TickNoError \/ Key

SpecLive ==
    /\ Init
    /\ [][NextLive]_vars
    /\ FairTick
    /\ WF_vars(Resume)

(***************************************************************************)
(* streamtest_write_blobs on its own: every length up to MaxBlobLen, on a  *)
(* buffer whose first bytes are the first bytes of the source.             *)
(***************************************************************************)
InitUnit(name, args, src) ==
    /\ phase = "unit"
    /\ source = src
    /\ fd = "none"
    /\ stream = "none"
    /\ heap = {}
    /\ handlers = FALSE
    /\ ops = <<>>
    /\ sent = <<>>
    /\ call = [name |-> name, args |-> args]
    /\ ret = <<>>
    /\ fill = NoFill
    /\ frame = <<>>
    /\ nframes = 0
    /\ errors = 0
    /\ status = "Running"
    /\ div0 = "unknown"

InitBlobs ==
    \E length \in 0..MaxBlobLen :
        /\ InitUnit("write_blobs", <<length>>, NoSource)
        /\ pos = length
        /\ state = [NoState EXCEPT
                      !.frame_bytes = MaxBlobLen + 1,
                      !.frame_buffer = WriteAt(Malloc(MaxBlobLen + 1), 0,
                                               Prefix(length))]

WriteBlobsCall ==
    /\ phase = "unit"
    /\ call.name = "write_blobs"
    /\ ret = <<>>
    /\ ops' = streamtest_write_blobs(state.frame_buffer, call.args[1])
    /\ sent' = BlobBytes(ops')
    /\ ret' = <<0>>
    /\ UNCHANGED <<phase, source, state, pos, fd, stream, heap, handlers,
                   call, fill, frame, nframes, errors, status, div0>>

SpecBlobs == InitBlobs /\ [][WriteBlobsCall]_vars

(***************************************************************************)
(* streamtest_fill_buffer on its own: every source of up to MaxFillLen     *)
(* bytes, every file offset, every buffer length up to MaxFillLen and      *)
(* every sequence of up to MaxFillReads read outcomes (an error, or a      *)
(* partial read of 1..MaxFillLen bytes).                                   *)
(***************************************************************************)
InitFill ==
    \E len \in 0..MaxFillLen, p \in 0..MaxFillLen, length \in 0..MaxFillLen,
       plan \in SeqsUpTo({-1} \cup 1..MaxFillLen, MaxFillReads) :
        /\ p <= len
        /\ InitUnit("fill_buffer", <<length, plan>>,
                    [exists |-> TRUE, statable |-> TRUE, seekable |-> TRUE,
                     len |-> len])
        /\ pos = p
        /\ state = [NoState EXCEPT !.frame_bytes = length,
                                   !.frame_buffer = Malloc(length)]

FillBufferCall ==
    LET f == streamtest_fill_buffer(source.len, pos, state.frame_buffer,
                                    call.args[1], call.args[2])
    IN  /\ phase = "unit"
        /\ call.name = "fill_buffer"
        /\ ret = <<>>
        /\ fill' = [result |-> f.result, start |-> pos, failed |-> f.failed]
        /\ pos' = f.pos
        /\ state' = [state EXCEPT !.frame_buffer = f.buffer]
        /\ ret' = <<f.result>>
        /\ UNCHANGED <<phase, source, fd, stream, heap, handlers, ops, sent,
                       call, frame, nframes, errors, status, div0>>

SpecFill == InitFill /\ [][FillBufferCall]_vars

(***************************************************************************)
(* Properties.                                                             *)
(***************************************************************************)
Ceil(a, b) == (a + b - 1) \div b

\* the operations of os that are blobs
Blobs(os) == SelectSeq(os, LAMBDA o : o[1] = "blob")

\* C1: with frame_bytes > 0 and no read error, the bytes sent as blobs so
\* far, in emission order, are exactly the bytes of the source before the
\* current file offset, and once end of stream was signalled they are all
\* the bytes of the source: none duplicated, dropped or reordered.
C1_BlobsReproduceSource ==
    (handlers /\ state.frame_bytes > 0 /\ errors = 0) =>
        /\ pos <= source.len
        /\ sent = Prefix(pos)
        /\ status = "EndOfStream" => sent = Prefix(source.len)

C1_Witness ==
    /\ handlers /\ errors = 0 /\ status = "EndOfStream"
    /\ state.frame_bytes = 6049 /\ source.len = 13000
    /\ sent = <<(<<0, 13000>>)>>
    /\ state.paused

\* C2: streamtest_write_blobs(buffer, length) sends ceil(length / 6048)
\* blobs, each of 1..6048 bytes, whose sizes sum to length; blob i starts
\* where blob i-1 ended, the first at offset 0, and carries the bytes of
\* the buffer at its offsets.  No blob is sent for length 0.
C2_ChunksCoverBuffer ==
    (call.name = "write_blobs" /\ ret # <<>>) =>
        LET length == call.args[1]
        IN  /\ Len(ops) = Ceil(length, BLOB_MAX)
            /\ \A i \in 1..Len(ops) :
                  /\ ops[i][1] = "blob"
                  /\ ops[i][3] \in 1..BLOB_MAX
                  /\ ops[i][2] = IF i = 1 THEN 0
                                 ELSE ops[i-1][2] + ops[i-1][3]
                  /\ ops[i][4] = <<(<<ops[i][2], ops[i][3]>>)>>
            /\ (Len(ops) > 0 =>
                   ops[Len(ops)][2] + ops[Len(ops)][3] = length)
            /\ sent = Prefix(length)

C2_Witness ==
    /\ call.name = "write_blobs" /\ ret # <<>>
    /\ call.args[1] = 2 * BLOB_MAX + 1
    /\ Len(ops) = 3
    /\ ops[3] = <<"blob", 2 * BLOB_MAX, 1, <<(<<2 * BLOB_MAX, 1>>)>> >>

\* C3: streamtest_fill_buffer(fd, buffer, length) with length > 0 returns
\* -1 exactly when an underlying read failed, and otherwise the smaller of
\* length and the number of bytes left in the source, whatever partial
\* counts the underlying reads return; the file offset has then advanced by
\* the count returned and the buffer starts with the bytes read.
C3_NoShortRead ==
    (call.name = "fill_buffer" /\ ret # <<>> /\ call.args[1] > 0) =>
        LET length    == call.args[1]
            plan      == call.args[2]
            remaining == source.len - fill.start
        IN  /\ ret[1] = IF fill.failed THEN -1 ELSE Min(length, remaining)
            /\ (\A i \in 1..Len(plan) : plan[i] # -1) => ~fill.failed
            /\ (Len(plan) > 0 /\ plan[1] = -1) => fill.failed
            /\ ~fill.failed =>
                  /\ pos = fill.start + ret[1]
                  /\ Take(state.frame_buffer, ret[1])
                       = (IF ret[1] = 0 THEN <<>>
                          ELSE <<(<<fill.start, ret[1]>>)>>)

C3_Witness ==
    /\ call.name = "fill_buffer" /\ ret = <<3>>
    /\ call.args = <<3, <<1, 1>> >>
    /\ source.len = 4 /\ fill.start = 0

\* the operations of os with the given name
OpsNamed(os, name) == SelectSeq(os, LAMBDA o : o[1] = name)

\* C4: a tick made while paused reads nothing and sends no blob: the file
\* offset, the bytes sent and the playback state are unchanged, and a key
\* event never moves the file offset; so the first blob of the next
\* unpaused tick starts with the byte at the offset at which playback was
\* paused.
C4_Step ==
    /\ (call'.name = "tick" /\ state.paused) =>
          /\ pos' = pos
          /\ sent' = sent
          /\ state' = state
          /\ nframes' = nframes
          /\ fill' = NoFill
          /\ Blobs(ops') = <<>>
    /\ call'.name = "key" => (pos' = pos /\ sent' = sent)
    /\ (call'.name = "tick" /\ ~state.paused /\ Blobs(ops') # <<>>) =>
          Blobs(ops')[1][4][1][1] = pos

C4_PausedTickKeepsOffset == [][C4_Step]_vars

C4_Witness ==
    /\ call.name = "tick" /\ state.paused /\ status = "Running"
    /\ state.frame_bytes = 1024 /\ source.len = 2500
    /\ pos = 1024 /\ sent = <<(<<0, 1024>>)>>
    /\ Blobs(ops) = <<>>

\* C5: with frame_bytes > 0 and no read error, an unpaused tick reads
\* min(frame_bytes, bytes left); if that is positive, short or not, the
\* bytes are sent as blobs and the session is not stopped; if it is 0,
\* guac_client_stop is called and nothing is sent.  The session stops only
\* in such a tick, and the first stop is in unpaused tick number
\* ceil(L / frame_bytes) + 1.
C5_Step ==
    /\ (call'.name = "tick" /\ ~state.paused /\ state.frame_bytes > 0
          /\ errors' = 0) =>
          LET n == Min(state.frame_bytes, source.len - pos)
          IN  /\ fill'.result = n
              /\ n > 0 => /\ ~HasStop(ops')
                          /\ status' = status
                          /\ BlobBytes(ops') = <<(<<pos, n>>)>>
              /\ n = 0 => /\ HasStop(ops')
                          /\ Blobs(ops') = <<>>
              /\ (status = "Running" /\ status' = "EndOfStream") =>
                    nframes' = Ceil(source.len, state.frame_bytes) + 1
    /\ (status # "EndOfStream" /\ status' = "EndOfStream") =>
          (call'.name = "tick" /\ fill'.result = 0)

C5_StopsOnlyOnEmptyRead == [][C5_Step]_vars

C5_Witness ==
    /\ call.name = "tick" /\ status = "EndOfStream" /\ errors = 0
    /\ state.frame_bytes = 1024 /\ source.len = 2500
    /\ nframes = 4 /\ fill.result = 0 /\ fill.start = 2500
    /\ sent = <<(<<0, 2500>>)>>

\* C6 (as claimed): every completed tick returns 0 and, with elapsed the
\* difference of its two timestamps, sleeps exactly frame_duration -
\* elapsed if elapsed < frame_duration, a value in 1..frame_duration, and
\* does not sleep otherwise.
C6_SleepsRemainder ==
    (call.name = "tick" /\ Len(frame) = 2) =>
        LET elapsed == IntSub(frame[2], frame[1])
            sleeps  == OpsNamed(ops, "usleep")
        IN  /\ ret = <<0>>
            /\ IF elapsed < state.frame_duration
               THEN /\ sleeps = << <<"usleep",
                                     state.frame_duration - elapsed>> >>
                    /\ state.frame_duration - elapsed
                         \in 1..state.frame_duration
               ELSE sleeps = <<>>

\* C7 (as claimed): a tick whose read fails returns non-zero, sends no
\* blob and leaves the session stopped; once a read has failed no later
\* tick sends any further data.
C7_Step ==
    /\ (call'.name = "tick" /\ fill'.failed) =>
          /\ ret' = <<1>>
          /\ Blobs(ops') = <<>>
          /\ sent' = sent
          /\ status' # "Running"
    /\ status = "ReadError" => sent' = sent

C7_ReadErrorStops == [][C7_Step]_vars

\* C8 (as claimed): once a session with frame_bytes > 0 is stopped a tick
\* does nothing (no read, no blob, no further guac_client_stop, no change
\* of state) and a key event does not change the paused flag.
C8_Step ==
    (state.frame_bytes > 0 /\ status # "Running") =>
        /\ call'.name = "tick" =>
              /\ fill' = NoFill
              /\ nframes' = nframes
              /\ Blobs(ops') = <<>>
              /\ ~HasStop(ops')
              /\ <<state, pos, sent>>' = <<state, pos, sent>>
        /\ call'.name = "key" => state'.paused = state.paused

C8_StoppedIsInert == [][C8_Step]_vars

\* C9: paused is FALSE after guac_client_init; a press (pressed # 0) of
\* keysym 0x20 negates it; every other step (a release, another key, a
\* tick with its render, the free handler) leaves it unchanged.
C9_Step ==
    state'.paused =
        IF call'.name = "init" THEN FALSE
        ELSE IF call'.name = "key" /\ call'.args[1] = 32
                /\ call'.args[2] # 0
        THEN ~state.paused
        ELSE state.paused

C9_PauseTogglesOnSpacePress == [][C9_Step]_vars

C9_Witness ==
    /\ call.name = "key" /\ call.args = <<32, 1>>
    /\ state.paused /\ nframes > 0

\* C10 (as claimed): whenever the progress bar is drawn at a position
\* within the file, the fill rectangle is
\* min(640, (position + 1) * 640 / (file_size + 1)) wide, and it is filled
\* amber when paused and green when running.
C10_FillWidth ==
    LET rects == OpsNamed(ops, "rect")
        fills == OpsNamed(ops, "cfill")
    IN  (Len(rects) = 2 /\ pos <= state.file_size) =>
            /\ rects[2][4] =
                 Min(STREAMTEST_PROGRESS_WIDTH,
                     ((pos + 1) * STREAMTEST_PROGRESS_WIDTH)
                         \div (state.file_size + 1))
            /\ rects[2][4] <= STREAMTEST_PROGRESS_WIDTH
            /\ fills[2] = IF state.paused THEN <<"cfill", 128, 128, 0, 255>>
                          ELSE <<"cfill", 0, 128, 0, 255>>

\* C11 (as claimed): no render divides by zero, whatever the size of the
\* source (no division by zero has been made in any reachable state), and
\* a progress bar drawn at position 0 has a fill rectangle at least 1 pixel
\* wide.
C11_NoDivisionByZero ==
    /\ div0 = "unknown"
    /\ phase # "crashed"
    /\ LET rects == OpsNamed(ops, "rect")
       IN  (Len(rects) = 2 /\ pos = 0) => rects[2][4] >= 1

\* what a render sent: its draw instructions, or its warning when the
\* position cannot be determined
RenderOps(os) ==
    SelectSeq(os, LAMBDA o : o[1] \in {"rect", "cfill"}
                             \/ o = <<"log", "WARNING">>)

\* C12: a render changes nothing of the playback state: after the initial
\* render the file offset is 0 and playback is not paused, and a completed
\* tick leaves the file offset where its read left it (where it was, if
\* paused) and changes neither paused nor the sizes.  A render is a
\* function of (file offset, file_size, paused): when two calls in a row
\* render with these three equal, they send the same draw instructions.
C12_Step ==
    /\ (call'.name = "init" /\ ret' = <<0>>) =>
          /\ pos' = 0
          /\ ~state'.paused
          /\ state'.file_size = StSize(source')
    /\ (call'.name = "tick" /\ ret' = <<0>>) =>
          /\ pos' = IF state.paused THEN pos
                    ELSE fill'.start + fill'.result
          /\ state'.paused = state.paused
          /\ state'.file_size = state.file_size
          /\ state'.frame_bytes = state.frame_bytes
          /\ state'.frame_duration = state.frame_duration
    /\ ( /\ call.name \in {"init", "tick"} /\ ret = <<0>>
         /\ call'.name = "tick" /\ ret' = <<0>>
         /\ pos' = pos
         /\ state'.paused = state.paused
         /\ state'.file_size = state.file_size ) =>
          RenderOps(ops') = RenderOps(ops)

C13_TeardownReleasesAll ==
    (phase = "freed" /\ state.frame_bytes > 0) =>
        /\ fd = "closed"
        /\ stream = "freed"
        /\ heap = {}

\* C14: when guac_client_init is given four arguments and an audio
\* mimetype and the file cannot be opened, it returns non-zero with no
\* descriptor, no state and no frame buffer allocated, no handler
\* registered, and nothing of the display sent.
C14_OpenFailureIsFatal ==
    ( /\ call.name = "init"
      /\ call.args[1] = STREAMTEST_ARGS_COUNT
      /\ StrncmpEqual(call.args[2], AudioPrefix, 6)
      /\ ~source.exists ) =>
        /\ ret = <<1>>
        /\ phase = "failed"
        /\ fd = "none"
        /\ heap = {}
        /\ state = NoState
        /\ ~handlers
        /\ OpsNamed(ops, "size") = <<>>
        /\ RenderOps(ops) = <<>>
        /\ ops[Len(ops)] = <<"log", "ERROR">>

C14_Witness ==
    /\ call.name = "init" /\ call.args[1] = 4
    /\ call.args[2] = <<"a", "u", "d", "i", "o", "/", "o", "g", "g">>
    /\ ~source.exists
    /\ ret = <<1>> /\ heap = {} /\ ~handlers

\* C15 (as claimed): when guac_client_init is given a number of arguments
\* other than four, or a mimetype that does not begin with "audio/", it
\* returns non-zero and has allocated nothing: no stream, no descriptor,
\* no state or buffer, no handler, and nothing was sent on the socket.
C15_ArgumentErrorAllocatesNothing ==
    ( /\ call.name = "init"
      /\ \/ call.args[1] # STREAMTEST_ARGS_COUNT
         \/ ~StrncmpEqual(call.args[2], AudioPrefix, 6) ) =>
        /\ ret = <<1>>
        /\ stream = "none"
        /\ fd = "none"
        /\ heap = {}
        /\ ~handlers
        /\ \A i \in 1..Len(ops) : ops[i][1] = "log"

\* C16 (as claimed): in every successfully initialized session
\* frame_bytes > 0, whatever the bytes-per-frame argument, and no step
\* changes it; and guac_client_stop is never called for end of stream
\* while bytes of the source are unread.
C16_FrameBytesPositive ==
    /\ [](handlers =>
            /\ state.frame_bytes > 0
            /\ status = "EndOfStream" => pos = source.len)
    /\ [][handlers => state'.frame_bytes = state.frame_bytes]_vars

\* C17 (as claimed): of the two timestamps streamtest_utime returns in a
\* completed tick the second is not before the first, modulo the wrap of
\* the 32-bit int, so that elapsed = second - first is never negative.
C17_ElapsedNeverNegative ==
    (call.name = "tick" /\ Len(frame) = 2) =>
        IntSub(frame[2], frame[1]) >= 0

\* C18: while no read has failed, the number of bytes sent as blobs equals
\* the file offset, which is at most the length of the source; neither
\* ever decreases; and a tick that reads n > 0 bytes sends exactly these n
\* bytes, in blobs of at most 6048 bytes, before it returns: the offset
\* advances by n and so does the number of bytes sent.
C18_Step ==
    errors' = 0 =>
        /\ pos' >= pos
        /\ RunsLen(sent') >= RunsLen(sent)
        /\ (call'.name = "tick" /\ fill'.result > 0) =>
              LET n == fill'.result
              IN  /\ BlobBytes(ops') = <<(<<pos, n>>)>>
                  /\ \A i \in 1..Len(Blobs(ops')) :
                        Blobs(ops')[i][3] \in 1..BLOB_MAX
                  /\ Len(Blobs(ops')) = Ceil(n, BLOB_MAX)
                  /\ pos' = pos + n
                  /\ RunsLen(sent') = RunsLen(sent) + n
                  /\ ret' # <<>> => ret' = <<0>>

C18_SentEqualsConsumed ==
    /\ []((handlers /\ errors = 0) =>
            (RunsLen(sent) = pos /\ pos <= source.len))
    /\ [][C18_Step]_vars

C18_Witness ==
    /\ call.name = "tick" /\ ret = <<0>> /\ errors = 0
    /\ state.frame_bytes = 6049 /\ source.len = 13000
    /\ fill.result = 6049 /\ fill.start = 6049
    /\ Len(Blobs(ops)) = 2
    /\ Blobs(ops)[2][3] = 1
    /\ RunsLen(sent) = 12098 /\ pos = 12098

\* the instructions of exactly one render: the background and the fill, or
\* the warning of a render that could not determine the position
OneRender(r) ==
    \/ r = << <<"log", "WARNING">> >>
    \/ /\ Len(r) = 4
       /\ r[1] = <<"rect", 0, 0, STREAMTEST_PROGRESS_WIDTH,
                   STREAMTEST_PROGRESS_HEIGHT>>
       /\ r[2][1] = "cfill"
       /\ r[3][1] = "rect"
       /\ r[4][1] = "cfill"

\* C19: a successful guac_client_init renders once, last before its flush;
\* a completed tick (unpaused, paused, or detecting end of file) does, in
\* this order: the blobs or the stop, exactly one render, one flush, then
\* the sleep (or the debug message of a frame that took too long); a tick
\* aborted by a read error renders nothing, flushes nothing and does not
\* sleep.
C19_RenderOncePerTick ==
    /\ (call.name = "init" /\ ret = <<0>>) =>
          /\ OneRender(RenderOps(ops))
          /\ ops[Len(ops)] = <<"flush">>
          /\ LET n == Len(RenderOps(ops))
             IN  SubSeq(ops, Len(ops) - n, Len(ops) - 1) = RenderOps(ops)
    /\ (call.name = "tick" /\ ret = <<0>>) =>
          LET n == Len(RenderOps(ops))
              a == Len(ops) - n - 2
          IN  /\ OneRender(RenderOps(ops))
              /\ a >= 0
              /\ \A i \in 1..a : ops[i][1] \in {"blob", "stop"}
                                 \/ ops[i] = <<"log", "INFO">>
              /\ SubSeq(ops, 1, a) # <<>> <=> ~state.paused
              /\ SubSeq(ops, a + 1, a + n) = RenderOps(ops)
              /\ ops[a + n + 1] = <<"flush">>
              /\ ops[a + n + 2][1] = "usleep"
                 \/ ops[a + n + 2] = <<"log", "DEBUG">>
    /\ (call.name = "tick" /\ ret = <<1>>) =>
          /\ fill.failed
          /\ ops = << <<"log", "ERROR">> >>

C19_Witness ==
    /\ call.name = "tick" /\ ret = <<0>> /\ status = "EndOfStream"
    /\ source.len = 2500 /\ state.frame_bytes = 6049 /\ pos = 2500
    /\ Len(ops) = 8
    /\ ops[1] = <<"log", "INFO">> /\ ops[2] = <<"stop">>
    /\ ops[5] = <<"rect", 0, 0, 833, 32>>
    /\ ops[7] = <<"flush">>
    /\ ops[8] = <<"usleep", 7000>>

C21_FailedInitHoldsNothing ==
    (call.name = "init" /\ phase = "failed") =>
        /\ ret = <<1>>
        /\ ~handlers
        /\ fd # "open"
        /\ stream # "allocated"
        /\ heap = {}

TypeOK ==
    /\ phase \in {"new", "running", "failed", "crashed", "freed", "unit"}
    /\ pos \in 0..13000
====
